---- MODULE Spec2Model ----
(***************************************************************************)
(* A model of the companion bot: the Telegram handlers of bot.py and the   *)
(* five backend clients (Gemini, Groq, Rovo Dev, OpenRouter, xAI).         *)
(*                                                                         *)
(* Strings are sequences of tokens, so that concatenation is \o and the    *)
(* pieces of a string that come from a file (decoded text, base64 text,    *)
(* raw bytes) stay visible with their lengths.  A message content is a     *)
(* Python str or a Python list of blocks.                                 *)
(***************************************************************************)
EXTENDS Integers, Sequences, FiniteSets, TLC

VARIABLES
    backend,        \* which client class bot_data holds
    configured,     \* the model argument given to the client's constructor
    seen,           \* what models.list() answered the constructor
    model,          \* self._model (self._model_name for Gemini)
    catalog,        \* what the provider's models.list() would answer now
    catalogQueries, \* how many times models.list() has been called
    allowed,        \* ALLOWED_USER_IDS
    stored,         \* context.user_data["history"], per user
    call,           \* observation of the last client call made by a handler
    ui,             \* the last thing the bot sent to a user
    inflight        \* the client calls that were awaited and have not returned yet

vars == <<backend, configured, seen, model, catalog, catalogQueries, allowed, stored, call, ui,
          inflight>>

\* what is set when the process starts and never assigned again
setup == <<backend, configured, seen, model, allowed>>

(***************************************************************************)
(* Bounds of the model.                                                    *)
(***************************************************************************)
\* stored turns per user beyond which no further message is modelled
MaxHist == 4

\* the Telegram users that write to the bot
Users == {1, 2}

(***************************************************************************)
(* Strings.                                                                *)
(***************************************************************************)
\* a literal piece of text
Lit(s) == [k |-> "lit", s |-> s, n |-> 0]
\* a decimal rendering of the number n
Num(v) == [k |-> "num", s |-> "", n |-> v]
\* the first n characters of file f decoded as UTF-8 with replacement
FileText(f, v) == [k |-> "filetext", s |-> f, n |-> v]
\* the text obtained by decoding the first n bytes of file f
Decoded(f, v) == [k |-> "decoded", s |-> f, n |-> v]
\* the first n characters of the base64 encoding of file f
B64(f, v) == [k |-> "b64", s |-> f, n |-> v]
\* the first n raw bytes of file f
Raw(f, v) == [k |-> "raw", s |-> f, n |-> v]

\* "" is the empty sequence; a literal token never holds ""
S(s) == IF s = "" THEN <<>> ELSE <<Lit(s)>>

\* x or y, on strings: Python's `or` takes y when x is empty
OrElse(x, y) == IF x = <<>> THEN y ELSE x

\* str.strip() on the literals the model uses
StripLit(s) ==
    CASE s = "  Hi there  " -> "Hi there"
      [] s = " Hello " -> "Hello"
      [] s = "   " -> ""
      [] OTHER -> s

\* str.strip(): the model's padded strings are single literals
Strip(str) ==
    IF Len(str) = 1 /\ str[1].k = "lit" THEN S(StripLit(str[1].s)) ELSE str

\* a message content that is a Python str
StrContent(str) == [type |-> "str", blocks |-> <<[bt |-> "str", toks |-> str]>>]
\* a message content that is a Python list of blocks / parts
ListContent(blocks) == [type |-> "list", blocks |-> blocks]
\* response content None
NoneContent == [type |-> "none", blocks |-> <<>>]

Turn(role, content) == [role |-> role, content |-> content]

\* all tokens of a content, in order
RECURSIVE TokensOf(_)
TokensOf(blocks) ==
    IF blocks = <<>> THEN <<>> ELSE Head(blocks).toks \o TokensOf(Tail(blocks))

\* the content carries file data: raw bytes or base64 text
CarriesFileData(content) ==
    \E i \in 1..Len(TokensOf(content.blocks)) :
        LET t == TokensOf(content.blocks)[i] IN t.k \in {"raw", "b64"} /\ t.n > 0

(***************************************************************************)
(* Attachments.  A file is its name, its mime type, its length in bytes    *)
(* and the number of characters its bytes decode to.  The str operations   *)
(* the clients apply to names and mime types are tables over the names     *)
(* and mime types of the model.                                            *)
(***************************************************************************)
File(name, mime, len, chars) == [name |-> name, mime |-> mime, len |-> len, chars |-> chars]

\* a mime_type argument that is None, written as str() and the f-strings render
\* it; no mime type of the model is the string "None"
PyNone == "None"

\* file_name.rsplit(".", 1)[-1].lower() if "." in file_name else ""
RsplitExt(name) ==
    CASE name = "notes.txt" -> "txt"
      [] name = "photo.jpg" -> "jpg"
      [] name = "doc.pdf" -> "pdf"
      [] name = "big.bin" -> "bin"
      [] name = "blob.bin" -> "bin"
      [] name = "shot.PY" -> "py"
      [] name = "shot.py" -> "py"
      [] name = "edge.bin" -> "bin"
      [] OTHER -> ""

\* Path(file_name).suffix.lower()
PathSuffix(name) == IF RsplitExt(name) = "" THEN "" ELSE
    CASE RsplitExt(name) = "txt" -> ".txt"
      [] RsplitExt(name) = "jpg" -> ".jpg"
      [] RsplitExt(name) = "pdf" -> ".pdf"
      [] RsplitExt(name) = "bin" -> ".bin"
      [] RsplitExt(name) = "py" -> ".py"

\* the ext of a tuple of ".xxx" suffixes for which file_name.endswith(ext):
\* the comparison keeps the letter case of the name
EndsWithOneOf(name, exts) ==
    CASE name = "shot.PY" -> ".PY" \in exts
      [] OTHER -> PathSuffix(name) \in exts

\* mime_type.startswith(prefix), for the prefixes "text/" and "image/"
StartsWith(mime, prefix) ==
    CASE mime \in {"text/plain", "text/x-python", "text/csv"} -> prefix = "text/"
      [] mime \in {"image/jpeg", "image/png", "image/bmp"} -> prefix = "image/"
      [] OTHER -> FALSE

\* len(mime_type)
MimeLen(mime) ==
    CASE mime = "application/octet-stream" -> 24
      [] mime = "application/pdf" -> 15
      [] mime = "image/jpeg" -> 10
      [] mime = "image/png" -> 9
      [] mime = "image/bmp" -> 9
      [] mime = "text/plain" -> 10
      [] mime = "text/x-python" -> 13
      [] mime = "text/csv" -> 8
      [] mime = PyNone -> 4
      [] OTHER -> 0

\* len(base64.b64encode(file_bytes)) for a file of n bytes
B64Len(n) == 4 * ((n + 2) \div 3)

Min(a, b) == IF a <= b THEN a ELSE b

(***************************************************************************)
(* Payload builders.  Each takes the user's message (a string), the file   *)
(* and, where the client reads it, the resolved model, and gives the       *)
(* content of the user message that is sent to the backend.  Characters    *)
(* outside ASCII in the clients' texts are written in ASCII here, and the  *)
(* three backquotes of a code fence are written ~~~.                       *)
(***************************************************************************)
Gemini_MAX_FILE_TEXT_CHARS == 30000
Rovo_MAX_FILE_TEXT_CHARS == 30000
Gemini_MAX_B64 == 500000
Rovo_MAX_DATA_URI == 500000
Groq_max_bytes == 30000
Groq_b64_preview == 500
XAI_text_chars == 12000
OpenRouter_text_chars == 12000

Gemini_TEXT_MIME_TYPES ==
    {"application/json", "application/xml", "application/javascript",
     "application/typescript", "application/x-python", "application/x-sh",
     "application/x-yaml", "application/toml", "application/csv",
     "application/x-ndjson"}
Gemini_IMAGE_MIME_TYPES ==
    {"image/jpeg", "image/png", "image/gif", "image/webp", "image/heic", "image/heif"}
Gemini_DOCUMENT_MIME_TYPES == {"application/pdf"}
\* the extension set of _build_parts and of _build_file_message
Gemini_text_exts ==
    {"py", "js", "ts", "java", "c", "cpp", "h", "hpp", "cs", "go",
     "rb", "rs", "swift", "kt", "sh", "bash", "zsh", "fish",
     "yaml", "yml", "toml", "ini", "cfg", "conf",
     "md", "rst", "txt", "log", "csv", "json", "xml", "html", "css",
     "sql", "r", "m", "lua", "pl", "php"}
Rovo_TEXT_MIME_TYPES == Gemini_TEXT_MIME_TYPES
Rovo_text_exts == Gemini_text_exts

Groq_IMAGE_MIME_TYPES == {"image/jpeg", "image/png", "image/gif", "image/webp"}
Groq_VISION_MODELS == {"llama-3.2-90b-vision-preview", "llama-3.2-11b-vision-preview"}
Groq_text_extensions ==
    {".txt", ".md", ".py", ".js", ".ts", ".java", ".c", ".cpp",
     ".go", ".rs", ".rb", ".php", ".sh", ".bash", ".zsh",
     ".json", ".yaml", ".yml", ".toml", ".xml", ".csv", ".sql",
     ".html", ".css", ".scss", ".log", ".rst", ".ini", ".cfg"}

XAI_VISION_MODELS == {"grok-2-vision-1212"}
XAI_text_exts ==
    {".txt", ".py", ".js", ".ts", ".java", ".c", ".cpp",
     ".go", ".rs", ".rb", ".php", ".sh", ".md", ".rst",
     ".csv", ".json", ".xml", ".yaml", ".toml", ".sql",
     ".html", ".css", ".log"}

\* GeminiClient._is_text_mime
Gemini_is_text_mime(mime) ==
    IF mime \in {"", PyNone} THEN FALSE
    ELSE StartsWith(mime, "text/") \/ mime \in Gemini_TEXT_MIME_TYPES

\* RovoDevClient._is_text_mime
Rovo_is_text_mime(mime) ==
    IF mime \in {"", PyNone} THEN FALSE
    ELSE StartsWith(mime, "text/") \/ mime \in Rovo_TEXT_MIME_TYPES

\* GeminiClient._build_parts: the list of parts
Gemini_build_parts(msg, f) ==
    IF Gemini_is_text_mime(f.mime) \/ RsplitExt(f.name) \in Gemini_text_exts
    THEN LET text_content ==
                 IF f.chars > Gemini_MAX_FILE_TEXT_CHARS
                 THEN <<FileText(f.name, Gemini_MAX_FILE_TEXT_CHARS),
                        Lit("\n\n[... truncated - exceeded "),
                        Num(Gemini_MAX_FILE_TEXT_CHARS), Lit(" chars ...]")>>
                 ELSE <<FileText(f.name, f.chars)>>
         IN <<[bt |-> "str",
               toks |-> msg \o <<Lit("\n\n--- FILE: "), Lit(f.name), Lit(" ---\n~~~\n")>>
                        \o text_content \o <<Lit("\n~~~")>>]>>
    ELSE IF f.mime \in Gemini_IMAGE_MIME_TYPES
    THEN <<[bt |-> "str",
            toks |-> OrElse(msg, <<Lit("Please analyse this image: "), Lit(f.name)>>)],
           [bt |-> "inline_data", toks |-> <<Lit(f.mime), Raw(f.name, f.len)>>]>>
    ELSE IF f.mime \in Gemini_DOCUMENT_MIME_TYPES
    THEN <<[bt |-> "str",
            toks |-> OrElse(msg, <<Lit("Please analyse this document: "), Lit(f.name)>>)],
           [bt |-> "inline_data", toks |-> <<Lit(f.mime), Raw(f.name, f.len)>>]>>
    ELSE IF B64Len(f.len) > Gemini_MAX_B64
    THEN <<[bt |-> "str",
            toks |-> msg \o <<Lit("\n\n(!) The file '"), Lit(f.name),
                              Lit("' is too large to send ("), Num(f.len),
                              Lit(" bytes). Please try a smaller file.")>>]>>
    ELSE <<[bt |-> "str",
            toks |-> msg \o <<Lit("\n\nThe user attached a file named '"), Lit(f.name),
                              Lit("' (MIME type: "), Lit(f.mime),
                              Lit(").\nFile content (base64):\n"),
                              B64(f.name, B64Len(f.len))>>]>>

\* the binary branch without the MAX_DATA_URI test
Rovo_build_file_message_nolimit(msg, f) ==
    IF Rovo_is_text_mime(f.mime) \/ RsplitExt(f.name) \in Rovo_text_exts
    THEN msg \o <<Lit("\n\n--- FILE: "), Lit(f.name), Lit(" ---\n~~~\n"),
                  FileText(f.name, Min(f.chars, Rovo_MAX_FILE_TEXT_CHARS)), Lit("\n~~~")>>
    ELSE msg \o <<Lit("\n\nThe user has attached a file named '"), Lit(f.name),
                  Lit("' (MIME type: "), Lit(f.mime),
                  Lit(").\nFile content (base64 data-URI):\n"),
                  Lit("data:"), Lit(f.mime), Lit(";base64,"), B64(f.name, B64Len(f.len))>>

\* RovoDevClient._build_file_message: the combined prompt, a str
Rovo_build_file_message(msg, f) ==
    IF Rovo_is_text_mime(f.mime) \/ RsplitExt(f.name) \in Rovo_text_exts
    THEN LET text_content ==
                 IF f.chars > Rovo_MAX_FILE_TEXT_CHARS
                 THEN <<FileText(f.name, Rovo_MAX_FILE_TEXT_CHARS),
                        Lit("\n\n[... truncated - file exceeded "),
                        Num(Rovo_MAX_FILE_TEXT_CHARS), Lit(" characters ...]")>>
                 ELSE <<FileText(f.name, f.chars)>>
         IN msg \o <<Lit("\n\n--- FILE: "), Lit(f.name), Lit(" ---\n~~~\n")>>
                \o text_content \o <<Lit("\n~~~")>>
    ELSE IF 5 + MimeLen(f.mime) + 8 + B64Len(f.len) > Rovo_MAX_DATA_URI
    THEN msg \o <<Lit("\n\n(!) The file <"), Lit(f.name),
                  Lit("> is too large to send in full ("), Num(f.len),
                  Lit(" bytes). Please try a smaller file.")>>
    ELSE msg \o <<Lit("\n\nThe user has attached a file named '"), Lit(f.name),
                  Lit("' (MIME type: "), Lit(f.mime),
                  Lit(").\nFile content (base64 data-URI):\n"),
                  Lit("data:"), Lit(f.mime), Lit(";base64,"), B64(f.name, B64Len(f.len))>>

\* GroqClient._build_file_content raises: mime_type.startswith("text/") on a
\* mime_type that is None, reached when the extension is not a text extension
Groq_build_raises(f, m) ==
    /\ f.mime = PyNone
    /\ PathSuffix(f.name) \notin Groq_text_extensions

\* GroqClient._build_file_content: a list of blocks or a str
Groq_build_file_content(msg, f, m) ==
    IF f.mime \in Groq_IMAGE_MIME_TYPES /\ m \in Groq_VISION_MODELS
    THEN ListContent(<<
           [bt |-> "image_url",
            toks |-> <<Lit("data:"), Lit(f.mime), Lit(";base64,"), B64(f.name, B64Len(f.len))>>],
           [bt |-> "text", toks |-> msg]>>)
    ELSE IF PathSuffix(f.name) \in Groq_text_extensions \/ StartsWith(f.mime, "text/")
    THEN StrContent(msg \o <<Lit("\n\n--- File: "), Lit(f.name), Lit(" ---\n~~~\n"),
                             FileText(f.name, f.chars), Lit("\n~~~")>>)
    ELSE IF f.mime \in Groq_IMAGE_MIME_TYPES
    THEN StrContent(msg \o <<Lit("\n\n[Image file: "), Lit(f.name), Lit("]\ndata:"),
                             Lit(f.mime), Lit(";base64,"),
                             B64(f.name, Min(Groq_b64_preview, B64Len(f.len))),
                             Lit("... (truncated for non-vision model)\nPlease note: this model doesn't support images natively. Describe what you'd like to know about this image.")>>)
    ELSE LET note == IF f.len > Groq_max_bytes
                     THEN <<Lit("\n[File truncated - showing first "),
                            Num(Groq_max_bytes), Lit(" bytes]")>>
                     ELSE <<>>
         IN StrContent(msg \o <<Lit("\n\n--- File: "), Lit(f.name), Lit(" ("),
                                Lit(f.mime), Lit(") ---\n"),
                                Decoded(f.name, Min(f.len, Groq_max_bytes))>> \o note)

\* OpenRouterClient.chat_with_file, lines 98-123: the content appended to history
OpenRouter_file_content(msg, f) ==
    IF f.mime \notin {"", PyNone} /\ StartsWith(f.mime, "image/")
    THEN ListContent(<<
           [bt |-> "text", toks |-> msg],
           [bt |-> "image_url",
            toks |-> <<Lit("data:"), Lit(f.mime), Lit(";base64,"), B64(f.name, B64Len(f.len))>>]>>)
    ELSE StrContent(
           msg \o <<Lit("\n\n--- File: "), Lit(f.name), Lit(" ---\n"),
                    FileText(f.name, Min(f.chars, OpenRouter_text_chars))>>
               \o (IF f.chars > OpenRouter_text_chars
                   THEN <<Lit("\n\n[... file truncated, "), Num(f.chars), Lit(" chars total ...]")>>
                   ELSE <<>>))

\* XAIClient.chat_with_file raises: mime_type.startswith("image/") on a
\* mime_type that is None
XAI_build_raises(f) == f.mime = PyNone

\* XAIClient.chat_with_file, lines 124-156: the combined text handed to chat()
XAI_combined(msg, f, m) ==
    IF StartsWith(f.mime, "image/")
    THEN msg \o <<Lit("\n\n[Image '"), Lit(f.name), Lit("' uploaded but current model '"),
                  Lit(m), Lit("' does not support vision. Switch to grok-2-vision-1212.]")>>
    ELSE IF StartsWith(f.mime, "text/") \/ EndsWithOneOf(f.name, XAI_text_exts)
    THEN msg \o <<Lit("\n\n**File: "), Lit(f.name), Lit("**\n~~~\n"),
                  FileText(f.name, Min(f.chars, XAI_text_chars)), Lit("\n~~~")>>
    ELSE msg \o <<Lit("\n\n[Note: File '"), Lit(f.name), Lit("' ("), Lit(f.mime),
                  Lit(") is not supported. Please share as text or image.]")>>

\* XAIClient.chat_with_file, lines 99-109: the vision content
XAI_vision_content(msg, f) ==
    ListContent(<<
        [bt |-> "image_url",
         toks |-> <<Lit("data:"), Lit(f.mime), Lit(";base64,"), B64(f.name, B64Len(f.len))>>],
        [bt |-> "text", toks |-> msg]>>)

(***************************************************************************)
(* Model selection.  A catalog is the answer models.list() would give:     *)
(* ok = FALSE when the query raises, else the set of available ids.        *)
(***************************************************************************)
Backends == {"gemini", "groq", "rovo", "openrouter", "xai"}

Groq_PREFERRED_MODELS ==
    <<"llama-3.3-70b-versatile", "llama-3.1-70b-versatile", "llama-3.1-8b-instant",
      "mixtral-8x7b-32768", "gemma2-9b-it">>
XAI_PREFERRED_MODELS == <<"grok-2-vision-1212", "grok-2-1212", "grok-2-mini-1212">>
XAI_default_model == "grok-2-1212"
OpenRouter_PREFERRED_FREE_MODELS ==
    <<"meta-llama/llama-3.3-70b-instruct:free", "meta-llama/llama-3.1-8b-instruct:free",
      "mistralai/mistral-7b-instruct:free", "google/gemma-2-9b-it:free",
      "qwen/qwen-2-7b-instruct:free">>

\* the model ids of the model in the order Python's sorted() gives them
LexOrder ==
    <<"", "AUTO", "allam-2-7b", "auto", "gemini-1.5-flash", "gemma2-9b-it",
      "grok-2-1212", "grok-2-mini-1212", "grok-2-vision-1212", "grok-3", "grok-beta",
      "llama-3.1-70b-versatile", "llama-3.1-8b-instant", "llama-3.2-11b-vision-preview",
      "llama-3.2-90b-vision-preview", "llama-3.3-70b-versatile",
      "meta-llama/llama-3.3-70b-instruct:free", "mixtral-8x7b-32768", "my-model",
      "whisper-large-v3">>

LexRank(id) == CHOOSE i \in 1..Len(LexOrder) : LexOrder[i] = id

\* sorted(available)[0]
SortedFirst(available) ==
    CHOOSE a \in available : \A b \in available : LexRank(a) <= LexRank(b)

\* str.lower() on the configured model names of the model
Lower(str) == IF str = "AUTO" THEN "auto" ELSE str

\* the loop without its return: the last match wins
RECURSIVE FirstPreferred_last(_, _)
FirstPreferred_last(preferred, available) ==
    IF preferred = <<>> THEN <<>>
    ELSE IF FirstPreferred_last(Tail(preferred), available) # <<>>
    THEN FirstPreferred_last(Tail(preferred), available)
    ELSE IF Head(preferred) \in available THEN <<Head(preferred)>>
    ELSE <<>>

\* for model in PREFERRED_MODELS: if model in available: return model
\* gives <<model>> for the first match and <<>> when the loop ends without one
RECURSIVE FirstPreferred(_, _)
FirstPreferred(preferred, available) ==
    IF preferred = <<>> THEN <<>>
    ELSE IF Head(preferred) \in available THEN <<Head(preferred)>>
    ELSE FirstPreferred(Tail(preferred), available)

\* next(iter(available)): the first element in the set's iteration order, which
\* for a set of str depends on the process's hash seed: any element
NextIter(available) == available

\* _pick_model of groq_client.py: the set of ids it can return
Groq_pick_model(preferred, cat) ==
    IF preferred # "" /\ Lower(preferred) # "auto" THEN {preferred}
    ELSE IF ~cat.ok THEN {Groq_PREFERRED_MODELS[1]}
    ELSE IF FirstPreferred(Groq_PREFERRED_MODELS, cat.ids) # <<>>
    THEN {FirstPreferred(Groq_PREFERRED_MODELS, cat.ids)[1]}
    ELSE IF cat.ids # {} THEN NextIter(cat.ids)
    ELSE {Groq_PREFERRED_MODELS[1]}

\* XAIClient._pick_best_model
XAI_pick_best_model(cat) ==
    IF ~cat.ok THEN XAI_default_model
    ELSE IF FirstPreferred(XAI_PREFERRED_MODELS, cat.ids) # <<>>
    THEN FirstPreferred(XAI_PREFERRED_MODELS, cat.ids)[1]
    ELSE IF cat.ids # {} THEN SortedFirst(cat.ids)
    ELSE XAI_default_model

\* the constructors: the set of values self._model can get
\* (RovoDevClient has no model; its model is written "")
ConstructModel(b, cfg, cat) ==
    CASE b = "groq" -> Groq_pick_model(cfg, cat)
      [] b = "xai" -> IF cfg = "auto" THEN {XAI_pick_best_model(cat)} ELSE {cfg}
      [] b = "openrouter" ->
            IF cfg = "auto" THEN {OpenRouter_PREFERRED_FREE_MODELS[1]} ELSE {cfg}
      [] b = "gemini" -> {cfg}
      [] b = "rovo" -> {""}

\* the number of models.list() calls the constructor makes
ConstructQueries(b, cfg) ==
    CASE b = "groq" -> IF cfg # "" /\ Lower(cfg) # "auto" THEN 0 ELSE 1
      [] b = "xai" -> IF cfg = "auto" THEN 1 ELSE 0
      [] OTHER -> 0

(***************************************************************************)
(* The network.  One round trip has an outcome `net`: status 0 is a        *)
(* transport failure, any other status comes with a response body.  A body *)
(* is a JSON value.                                                        *)
(***************************************************************************)
JStr(str) == [t |-> "str", v |-> str]
JNull == [t |-> "null", v |-> <<>>]
JNum(n) == [t |-> "num", v |-> n]
JList(seq) == [t |-> "list", v |-> seq]
JDict(rec) == [t |-> "dict", v |-> rec]
\* {}
JEmptyDict == [t |-> "dict", v |-> <<>>]
\* a body that response.json() cannot parse; v is response.text
NonJson(str) == [t |-> "nonjson", v |-> str]

Has(j, key) == j.t = "dict" /\ key \in DOMAIN j.v

\* the body of an OpenAI-compatible chat completion
ChatCompletion(content) ==
    JDict([choices |-> JList(<<JDict([message |-> JDict([content |-> content])])>>)])

\* a JSON value as a Python value used as a reply
AsReply(j) ==
    CASE j.t = "str" -> StrContent(j.v)
      [] j.t = "null" -> NoneContent
      [] OTHER -> [type |-> j.t, blocks |-> <<>>]

\* str(x) / json.dumps(x) of a parsed body
Repr(what) == StrContent(<<[k |-> "repr", s |-> what, n |-> 0]>>)

Net(status, body) == [status |-> status, body |-> body]

NoErr == [cls |-> "", msg |-> "", status |-> 0]
Err(cls, msg, status) == [cls |-> cls, msg |-> msg, status |-> status]

\* what a call into a client gives: reply and history when ok, the exception
\* otherwise; requests are the round trips made, in order
Returned(reply, history, requests) ==
    [ok |-> TRUE, reply |-> reply, history |-> history, err |-> NoErr, requests |-> requests]
Raised(err, requests) ==
    [ok |-> FALSE, reply |-> NoneContent, history |-> <<>>, err |-> err, requests |-> requests]

Request(m, system, messages) == [model |-> m, system |-> system, messages |-> messages]

Groq_SYSTEM_PROMPT == <<Lit("You are a helpful, friendly AI assistant. Answer clearly and concisely. When analysing files, be thorough and structured in your response.")>>
Gemini_system_instruction == Groq_SYSTEM_PROMPT
XAI_SYSTEM_PROMPT == <<Lit("You are a friendly, warm, and supportive AI companion. You engage in natural, empathetic conversations. You remember the context of the conversation and respond thoughtfully. Be concise but meaningful in your responses.")>>
OpenRouter_SYSTEM_PROMPT == <<Lit("You are a helpful, friendly, and intelligent AI companion. You engage in natural conversations, answer questions thoroughly, analyze files and data when provided, and assist with any task. Be concise but thorough. Use a warm, conversational tone.")>>

\* the exception an SDK call (groq, openai, google.generativeai) raises on a
\* transport failure or a non-success status; the clients pass it on unchanged
SDKError(status) == Err("SDKError", "", status)

\* AttributeError of None.startswith()
NoneStartswith == Err("AttributeError", "'NoneType' object has no attribute 'startswith'", 0)

\* AttributeError of None.strip()
NoneStrip == Err("AttributeError", "'NoneType' object has no attribute 'strip'", 0)

\* without the copy the appends act on the caller's list
PassedListAfter_alias(passed, work) == work

\* history = list(history): the working copy is a new list, so the list the
\* caller passed keeps its elements whatever is appended to the copy
PassedListAfter(passed, work) == passed

(***************************************************************************)
(* GroqClient                                                              *)
(***************************************************************************)
\* GroqClient._call_groq
Groq_call_groq(m, history, net) ==
    LET req == Request(m, <<>>, <<Turn("system", StrContent(Groq_SYSTEM_PROMPT))>> \o history)
    IN IF net.status # 200 THEN Raised(SDKError(net.status), <<req>>)
       ELSE Returned(AsReply(net.body.v.choices.v[1].v.message.v.content), <<>>, <<req>>)

\* GroqClient.chat
Groq_chat(m, user_message, passed, net) ==
    LET history == Append(passed, Turn("user", StrContent(user_message)))
        r == Groq_call_groq(m, history, net)
    IN IF ~r.ok
       THEN r @@ [passed |-> PassedListAfter(passed, history)]
       ELSE LET final == Append(history, Turn("assistant", r.reply))
            IN Returned(r.reply, final, r.requests)
                 @@ [passed |-> PassedListAfter(passed, final)]

\* history[0] = ... in place of history[-1] = ...
Groq_chat_with_file_first(m, user_message, f, passed, net) ==
    IF Groq_build_raises(f, m)
    THEN Raised(NoneStartswith, <<>>) @@ [passed |-> PassedListAfter(passed, passed)] ELSE
    LET content == Groq_build_file_content(user_message, f, m)
        history == Append(passed, Turn("user", content))
        r == Groq_call_groq(m, history, net)
    IN IF ~r.ok
       THEN r @@ [passed |-> PassedListAfter(passed, history)]
       ELSE LET simplified ==
                    [history EXCEPT ![1] =
                        Turn("user", StrContent(user_message \o
                            <<Lit("\n[File: "), Lit(f.name), Lit("]")>>))]
                final == Append(simplified, Turn("assistant", r.reply))
            IN Returned(r.reply, final, r.requests)
                 @@ [passed |-> PassedListAfter(passed, final)]

\* GroqClient.chat_with_file
Groq_chat_with_file(m, user_message, f, passed, net) ==
    IF Groq_build_raises(f, m)
    THEN Raised(NoneStartswith, <<>>) @@ [passed |-> PassedListAfter(passed, passed)] ELSE
    LET content == Groq_build_file_content(user_message, f, m)
        history == Append(passed, Turn("user", content))
        r == Groq_call_groq(m, history, net)
    IN IF ~r.ok
       THEN r @@ [passed |-> PassedListAfter(passed, history)]
       ELSE LET simplified ==
                    [history EXCEPT ![Len(history)] =
                        Turn("user", StrContent(user_message \o
                            <<Lit("\n[File: "), Lit(f.name), Lit("]")>>))]
                final == Append(simplified, Turn("assistant", r.reply))
            IN Returned(r.reply, final, r.requests)
                 @@ [passed |-> PassedListAfter(passed, final)]

(***************************************************************************)
(* XAIClient                                                               *)
(***************************************************************************)
\* XAIClient.chat, lines 70-83 (and chat_with_file, lines 111-123): the round
\* trip on the working copy `history`, whose last turn is the user's
XAI_round_trip(m, history, net) ==
    LET req == Request(m, <<>>, <<Turn("system", StrContent(XAI_SYSTEM_PROMPT))>> \o history)
        content == net.body.v.choices.v[1].v.message.v.content
    IN IF net.status # 200 THEN Raised(SDKError(net.status), <<req>>)
       ELSE IF content.t # "str" THEN Raised(NoneStrip, <<req>>)
       ELSE Returned(StrContent(Strip(content.v)),
                     Append(history, Turn("assistant", StrContent(Strip(content.v)))),
                     <<req>>)

\* XAIClient.chat
XAI_chat(m, user_message, passed, net) ==
    LET history == Append(passed, Turn("user", StrContent(user_message)))
        r == XAI_round_trip(m, history, net)
    IN r @@ [passed |-> PassedListAfter(passed, IF r.ok THEN r.history ELSE history)]

\* XAIClient.chat_with_file
XAI_chat_with_file(m, user_message, f, passed, net) ==
    IF XAI_build_raises(f)
    THEN Raised(NoneStartswith, <<>>) @@ [passed |-> PassedListAfter(passed, passed)]
    ELSE IF StartsWith(f.mime, "image/") /\ m \in XAI_VISION_MODELS
    THEN LET history == Append(passed, Turn("user", XAI_vision_content(user_message, f)))
             r == XAI_round_trip(m, history, net)
         IN r @@ [passed |-> PassedListAfter(passed, IF r.ok THEN r.history ELSE history)]
    ELSE XAI_chat(m, XAI_combined(user_message, f, m), passed, net)

(***************************************************************************)
(* OpenRouterClient                                                        *)
(***************************************************************************)
\* the request posted again after a status that is not 200
OpenRouter_call_retry(m, messages, net) ==
    LET req == Request(m, <<>>,
                       <<Turn("system", StrContent(OpenRouter_SYSTEM_PROMPT))>> \o messages)
    IN IF net.status = 0 THEN Raised(Err("httpx.TransportError", "", 0), <<req>>)
       ELSE IF net.status # 200
       THEN Raised(Err("RuntimeError", "OpenRouter API returned HTTP", net.status),
                   <<req, req>>)
       ELSE Returned(StrContent(Strip(net.body.v.choices.v[1].v.message.v.content.v)),
                     <<>>, <<req>>)

\* OpenRouterClient._call
OpenRouter_call(m, messages, net) ==
    LET req == Request(m, <<>>,
                       <<Turn("system", StrContent(OpenRouter_SYSTEM_PROMPT))>> \o messages)
    IN IF net.status = 0 THEN Raised(Err("httpx.TransportError", "", 0), <<req>>)
       ELSE IF net.status # 200
       THEN Raised(Err("RuntimeError", "OpenRouter API returned HTTP", net.status), <<req>>)
       ELSE IF net.body.t = "nonjson"
       THEN Raised(Err("JSONDecodeError", "", 0), <<req>>)
       ELSE IF net.body.t # "dict" THEN Raised(Err("TypeError", "", 0), <<req>>)
       ELSE IF ~Has(net.body, "choices") THEN Raised(Err("KeyError", "choices", 0), <<req>>)
       ELSE IF net.body.v.choices.t = "dict" THEN Raised(Err("KeyError", "0", 0), <<req>>)
       ELSE IF net.body.v.choices.t # "list" THEN Raised(Err("TypeError", "", 0), <<req>>)
       ELSE IF net.body.v.choices.v = <<>> THEN Raised(Err("IndexError", "", 0), <<req>>)
       ELSE IF net.body.v.choices.v[1].t # "dict" THEN Raised(Err("TypeError", "", 0), <<req>>)
       ELSE IF ~Has(net.body.v.choices.v[1], "message")
       THEN Raised(Err("KeyError", "message", 0), <<req>>)
       ELSE IF net.body.v.choices.v[1].v.message.t # "dict"
       THEN Raised(Err("TypeError", "", 0), <<req>>)
       ELSE IF ~Has(net.body.v.choices.v[1].v.message, "content")
       THEN Raised(Err("KeyError", "content", 0), <<req>>)
       ELSE IF net.body.v.choices.v[1].v.message.v.content.t # "str"
       THEN Raised(NoneStrip, <<req>>)
       ELSE Returned(StrContent(Strip(net.body.v.choices.v[1].v.message.v.content.v)),
                     <<>>, <<req>>)

\* OpenRouterClient.chat, lines 81-85 (and chat_with_file, lines 125-127): the
\* call on the working copy and the assistant turn
OpenRouter_finish(m, passed, history, net) ==
    LET r == OpenRouter_call(m, history, net)
    IN IF ~r.ok
       THEN r @@ [passed |-> PassedListAfter(passed, history)]
       ELSE LET final == Append(history, Turn("assistant", r.reply))
            IN Returned(r.reply, final, r.requests)
                 @@ [passed |-> PassedListAfter(passed, final)]

\* OpenRouterClient.chat
OpenRouter_chat(m, user_message, passed, net) ==
    OpenRouter_finish(m, passed,
                      Append(passed, Turn("user", StrContent(user_message))), net)

\* OpenRouterClient.chat_with_file
OpenRouter_chat_with_file(m, user_message, f, passed, net) ==
    OpenRouter_finish(m, passed,
                      Append(passed, Turn("user", OpenRouter_file_content(user_message, f))),
                      net)

(***************************************************************************)
(* RovoDevClient                                                           *)
(***************************************************************************)
\* RovoDevClient._extract_text_from_adf
RECURSIVE Rovo_extract_text_from_adf(_)
Rovo_extract_text_from_adf(content_blocks) ==
    IF content_blocks = <<>> THEN <<>>
    ELSE LET block == Head(content_blocks)
             own == IF block.t = "dict" /\ Has(block, "type")
                       /\ block.v.type = JStr(<<Lit("text")>>)
                    THEN (IF Has(block, "text") THEN block.v.text.v ELSE <<>>)
                    ELSE <<>>
             nested == IF block.t = "dict" /\ Has(block, "content")
                          /\ block.v.content.t = "list"
                       THEN Rovo_extract_text_from_adf(block.v.content.v)
                       ELSE <<>>
         IN own \o nested \o Rovo_extract_text_from_adf(Tail(content_blocks))

\* "".join(parts) raises TypeError: a block of type "text" whose text is not a str
RECURSIVE Rovo_adf_raises(_)
Rovo_adf_raises(content_blocks) ==
    IF content_blocks = <<>> THEN FALSE
    ELSE LET block == Head(content_blocks)
         IN \/ /\ block.t = "dict" /\ Has(block, "type")
               /\ block.v.type = JStr(<<Lit("text")>>)
               /\ Has(block, "text") /\ block.v.text.t # "str"
            \/ /\ block.t = "dict" /\ Has(block, "content")
               /\ block.v.content.t = "list"
               /\ Rovo_adf_raises(block.v.content.v)
            \/ Rovo_adf_raises(Tail(content_blocks))

\* an exception raised while the response is parsed, in the place of the reply
PyRaise(cls) == [type |-> "raise", blocks |-> <<[bt |-> "exc", toks |-> <<Lit(cls)>>]>>]

\* bool(x) of a parsed JSON value
Truthy(j) ==
    CASE j.t = "null" -> FALSE
      [] j.t \in {"str", "list"} -> j.v # <<>>
      [] j.t = "dict" -> DOMAIN j.v # {}
      [] j.t = "num" -> j.v # 0
      [] OTHER -> TRUE

\* dict.get("content", default) as a reply
GetContent(d, default) == IF Has(d, "content") THEN AsReply(d.v.content) ELSE default

\* RovoDevClient._parse_response, Shapes 3 to 5 and the fallback, on a dict
Rovo_parse_flat(body) ==
    IF Has(body, "content") /\ body.v.content.t = "str"
    THEN StrContent(body.v.content.v)
    ELSE IF Has(body, "content") /\ body.v.content.t = "list"
    THEN (IF Rovo_adf_raises(body.v.content.v) THEN PyRaise("TypeError")
          ELSE StrContent(Rovo_extract_text_from_adf(body.v.content.v)))
    ELSE IF Has(body, "response")
    THEN (IF body.v.response.t = "str" THEN StrContent(body.v.response.v)
          ELSE Repr("response"))
    ELSE IF Has(body, "text")
    THEN (IF body.v.text.t = "str" THEN StrContent(body.v.text.v) ELSE Repr("text"))
    ELSE Repr("data")

\* RovoDevClient._parse_response, Shape 2, on a dict whose "choices" is truthy
Rovo_parse_choices(body) ==
    LET choices == body.v.choices
        choice == choices.v[1]
    IN CASE choices.t = "dict" -> PyRaise("KeyError")
         [] choices.t = "num" -> PyRaise("TypeError")
         [] choices.t = "list" /\ choice.t \in {"null", "num"} -> PyRaise("TypeError")
         [] choices.t = "list" /\ Has(choice, "message") ->
                IF choice.v.message.t = "dict"
                THEN GetContent(choice.v.message, Repr("choice"))
                ELSE PyRaise("AttributeError")
         [] choices.t = "list" /\ Has(choice, "text") -> AsReply(choice.v.text)
         [] OTHER -> Rovo_parse_flat(body)

\* RovoDevClient._parse_response.  A parsed body that is a str or a list holds
\* none of the words the `in` tests look for, in the model.
Rovo_parse_response(body) ==
    IF body.t = "nonjson" THEN StrContent(Strip(body.v))
    ELSE IF body.t \in {"null", "num"} THEN PyRaise("TypeError")
    ELSE IF body.t \in {"str", "list"} THEN Repr("data")
    ELSE IF Has(body, "message") /\ body.v.message.t = "dict"
    THEN GetContent(body.v.message, Repr("data"))
    ELSE IF Has(body, "choices") /\ Truthy(body.v.choices)
    THEN Rovo_parse_choices(body)
    ELSE Rovo_parse_flat(body)

\* _parse_response as the last step of _call_agent
Rovo_parsed(body, requests) ==
    LET p == Rovo_parse_response(body)
    IN IF p.type = "raise" THEN Raised(Err(p.blocks[1].toks[1].s, "", 0), requests)
       ELSE Returned(p, <<>>, requests)

\* the status checks without the raise for 401
Rovo_call_agent_no401(messages, net) ==
    LET req == Request("", <<>>, messages)
    IN IF net.status = 0 THEN Raised(Err("httpx.TransportError", "", 0), <<req>>)
       ELSE IF net.status = 403
       THEN Raised(Err("RuntimeError", "Forbidden (403)", 403), <<req>>)
       ELSE IF net.status \notin {200, 201, 401}
       THEN Raised(Err("RuntimeError", "Rovo Dev API returned HTTP", net.status), <<req>>)
       ELSE Rovo_parsed(net.body, <<req>>)

\* RovoDevClient._call_agent; both payload builders send the messages as they are
Rovo_call_agent(messages, net) ==
    LET req == Request("", <<>>, messages)
    IN IF net.status = 0 THEN Raised(Err("httpx.TransportError", "", 0), <<req>>)
       ELSE IF net.status = 401
       THEN Raised(Err("RuntimeError", "Authentication failed (401)", 401), <<req>>)
       ELSE IF net.status = 403
       THEN Raised(Err("RuntimeError", "Forbidden (403)", 403), <<req>>)
       ELSE IF net.status \notin {200, 201}
       THEN Raised(Err("RuntimeError", "Rovo Dev API returned HTTP", net.status), <<req>>)
       ELSE Rovo_parsed(net.body, <<req>>)

\* RovoDevClient.chat, lines 87-90 (and chat_with_file, lines 116-118)
Rovo_finish(passed, history, net) ==
    LET r == Rovo_call_agent(history, net)
    IN IF ~r.ok
       THEN r @@ [passed |-> PassedListAfter(passed, history)]
       ELSE LET final == Append(history, Turn("assistant", r.reply))
            IN Returned(r.reply, final, r.requests)
                 @@ [passed |-> PassedListAfter(passed, final)]

\* RovoDevClient.chat
Rovo_chat(user_message, passed, net) ==
    Rovo_finish(passed, Append(passed, Turn("user", StrContent(user_message))), net)

\* RovoDevClient.chat_with_file
Rovo_chat_with_file(user_message, f, passed, net) ==
    Rovo_finish(passed,
                Append(passed, Turn("user", StrContent(Rovo_build_file_message(user_message, f)))),
                net)

(***************************************************************************)
(* GeminiClient                                                            *)
(***************************************************************************)
\* GeminiClient._to_gemini_history
RECURSIVE Gemini_to_gemini_history(_)
Gemini_to_gemini_history(history) ==
    IF history = <<>> THEN <<>>
    ELSE <<Turn(IF Head(history).role = "user" THEN "user" ELSE "model",
                ListContent(Head(history).content.blocks))>>
         \o Gemini_to_gemini_history(Tail(history))

\* start_chat(history=gemini_history) and send_message(message), then
\* response.text.strip(): chat lines 82-89, chat_with_file lines 118-122
Gemini_send_message(m, history, message, net) ==
    LET req == Request(m, Gemini_system_instruction,
                       Append(Gemini_to_gemini_history(history), Turn("user", message)))
    IN IF net.status # 200 THEN Raised(SDKError(net.status), <<req>>)
       ELSE IF net.body.v.text.t # "str" THEN Raised(Err("ValueError", "response.text", 0), <<req>>)
       ELSE Returned(StrContent(Strip(net.body.v.text.v)), <<>>, <<req>>)

\* GeminiClient.chat, lines 92-95 (and chat_with_file, lines 125-131): the two
\* turns appended to the working copy after the call
Gemini_finish(passed, r, user_content) ==
    IF ~r.ok
    THEN r @@ [passed |-> PassedListAfter(passed, passed)]
    ELSE LET final == passed \o <<Turn("user", user_content), Turn("assistant", r.reply)>>
         IN Returned(r.reply, final, r.requests)
              @@ [passed |-> PassedListAfter(passed, final)]

\* GeminiClient.chat
Gemini_chat(m, user_message, passed, net) ==
    Gemini_finish(passed,
                  Gemini_send_message(m, passed, StrContent(user_message), net),
                  StrContent(user_message))

\* GeminiClient.chat_with_file
Gemini_chat_with_file(m, user_message, f, passed, net) ==
    Gemini_finish(passed,
                  Gemini_send_message(m, passed,
                                      ListContent(Gemini_build_parts(user_message, f)), net),
                  StrContent(<<Lit("[Uploaded file: "), Lit(f.name), Lit("] ")>>
                             \o user_message))

\* the client the bot holds, by backend
ClientChat(b, m, user_message, passed, net) ==
    CASE b = "gemini" -> Gemini_chat(m, user_message, passed, net)
      [] b = "groq" -> Groq_chat(m, user_message, passed, net)
      [] b = "rovo" -> Rovo_chat(user_message, passed, net)
      [] b = "openrouter" -> OpenRouter_chat(m, user_message, passed, net)
      [] b = "xai" -> XAI_chat(m, user_message, passed, net)

ClientChatWithFile(b, m, user_message, f, passed, net) ==
    CASE b = "gemini" -> Gemini_chat_with_file(m, user_message, f, passed, net)
      [] b = "groq" -> Groq_chat_with_file(m, user_message, f, passed, net)
      [] b = "rovo" -> Rovo_chat_with_file(user_message, f, passed, net)
      [] b = "openrouter" -> OpenRouter_chat_with_file(m, user_message, f, passed, net)
      [] b = "xai" -> XAI_chat_with_file(m, user_message, f, passed, net)

(***************************************************************************)
(* bot.py                                                                  *)
(***************************************************************************)
NoFile == File("", "", 0, 0)
\* the observation of a client call: the arguments, the status and the body
\* the round trip ended with, the catalog of that moment and what the call gave
Called(op, u, msg, f, before, net, cat, res) ==
    [op |-> op, user |-> u, msg |-> msg, file |-> f, before |-> before,
     status |-> net.status, body |-> net.body, cat |-> cat, res |-> res]
NoCall ==
    [op |-> "none", user |-> 0, msg |-> <<>>, file |-> NoFile, before |-> <<>>,
     status |-> 0, body |-> JNull, cat |-> [ok |-> FALSE, ids |-> {}],
     res |-> Raised(NoErr, <<>>) @@ [passed |-> <<>>]]
Ui(u, kind, content) == [user |-> u, kind |-> kind, content |-> content]
NoUi == Ui(0, "none", NoneContent)

\* every user let in whatever the allow-list holds
is_authorized_open(u) == TRUE

\* is_authorized
is_authorized(u) == IF allowed = {} THEN TRUE ELSE u \in allowed

\* the model picked again for every call
CallModel_requery(m, queries, b, cfg, cat) ==
    [model |-> CHOOSE x \in ConstructModel(b, cfg, cat) : TRUE,
     queries |-> queries + ConstructQueries(b, cfg)]

\* the model a call sends and the catalog queries made so far: chat and
\* chat_with_file read self._model and never call models.list()
CallModel(m, queries, b, cfg, cat) == [model |-> m, queries |-> queries]

\* handle_file_message, lines 172-192: file_name and mime_type of an upload
\* (file_name and mime_type "" stand for None)
BotFile(up) ==
    CASE up.kind = "photo" -> File("photo.jpg", "image/jpeg", up.len, up.chars)
      [] up.kind = "document" ->
            File(IF up.file_name = "" THEN "document" ELSE up.file_name,
                 IF up.mime_type = "" THEN "application/octet-stream" ELSE up.mime_type,
                 up.len, up.chars)
      [] up.kind = "audio" ->
            File(IF up.file_name = "" THEN "audio" ELSE up.file_name,
                 IF up.mime_type = "" THEN "application/octet-stream" ELSE up.mime_type,
                 up.len, up.chars)
      [] up.kind = "video" ->
            File(IF up.file_name = "" THEN "video" ELSE up.file_name,
                 IF up.mime_type = "" THEN "application/octet-stream" ELSE up.mime_type,
                 up.len, up.chars)

\* send_long_message after a call returned: len() of a reply that is not a
\* str raises, and the handler's except clause reports the error
AfterReply(u, reply) ==
    IF reply.type = "str" THEN Ui(u, "reply", reply) ELSE Ui(u, "error", NoneContent)

\* start_command
start_command(u) ==
    /\ ui' = Ui(u, IF is_authorized(u) THEN "welcome" ELSE "unauthorized", NoneContent)
    /\ UNCHANGED <<setup, catalog, catalogQueries, stored, call, inflight>>

\* help_command
help_command(u) ==
    /\ ui' = Ui(u, IF is_authorized(u) THEN "help" ELSE "unauthorized", NoneContent)
    /\ UNCHANGED <<setup, catalog, catalogQueries, stored, call, inflight>>

\* a reset that clears what is stored for every user
reset_command_all(u) ==
    /\ IF is_authorized(u)
       THEN /\ stored' = [v \in Users |-> <<>>]
            /\ ui' = Ui(u, "reset", NoneContent)
       ELSE /\ ui' = Ui(u, "unauthorized", NoneContent)
            /\ UNCHANGED stored
    /\ UNCHANGED <<setup, catalog, catalogQueries, call, inflight>>

\* reset_command
reset_command(u) ==
    /\ IF is_authorized(u)
       THEN /\ stored' = [stored EXCEPT ![u] = <<>>]
            /\ ui' = Ui(u, "reset", NoneContent)
       ELSE /\ ui' = Ui(u, "unauthorized", NoneContent)
            /\ UNCHANGED stored
    /\ UNCHANGED <<setup, catalog, catalogQueries, call, inflight>>

\* handle_text_message
handle_text_message(u, text, net) ==
    /\ Len(stored[u]) + 2 <= MaxHist
    /\ IF ~is_authorized(u)
       THEN /\ ui' = Ui(u, "unauthorized", NoneContent)
            /\ UNCHANGED <<stored, call, catalogQueries>>
       ELSE IF Strip(S(text)) = <<>>
       THEN UNCHANGED <<stored, call, catalogQueries, ui>>
       ELSE LET cm == CallModel(model, catalogQueries, backend, configured, catalog)
                res == ClientChat(backend, cm.model, Strip(S(text)), stored[u], net)
            IN /\ call' = Called("chat", u, Strip(S(text)), NoFile, stored[u], net,
                                 catalog, res)
               /\ catalogQueries' = cm.queries
               /\ stored' = [stored EXCEPT ![u] = IF res.ok THEN res.history ELSE res.passed]
               /\ ui' = IF res.ok THEN AfterReply(u, res.reply)
                        ELSE Ui(u, "error", NoneContent)
    /\ UNCHANGED <<setup, catalog, inflight>>

\* handle_file_message; downloaded = FALSE when get_file or download_to_drive raises
handle_file_message(u, up, caption, downloaded, net) ==
    /\ Len(stored[u]) + 2 <= MaxHist
    /\ IF ~is_authorized(u)
       THEN /\ ui' = Ui(u, "unauthorized", NoneContent)
            /\ UNCHANGED <<stored, call, catalogQueries>>
       ELSE IF ~downloaded
       THEN /\ ui' = Ui(u, "download_failed", NoneContent)
            /\ UNCHANGED <<stored, call, catalogQueries>>
       ELSE LET f == BotFile(up)
                msg == OrElse(S(caption), <<Lit("Please analyse the file: "), Lit(f.name)>>)
                cm == CallModel(model, catalogQueries, backend, configured, catalog)
                res == ClientChatWithFile(backend, cm.model, msg, f, stored[u], net)
            IN /\ call' = Called("chat_with_file", u, msg, f, stored[u], net, catalog, res)
               /\ catalogQueries' = cm.queries
               /\ stored' = [stored EXCEPT ![u] = IF res.ok THEN res.history ELSE res.passed]
               /\ ui' = IF res.ok THEN AfterReply(u, res.reply)
                        ELSE Ui(u, "error", NoneContent)
    /\ UNCHANGED <<setup, catalog, inflight>>

\* the provider's catalog changes (the environment)
CatalogChange(cat) ==
    /\ cat # catalog
    /\ catalog' = cat
    /\ UNCHANGED <<setup, catalogQueries, stored, call, ui, inflight>>

\* a caller other than the bot calls chat_with_file on the client, with an
\* empty history
client_chat_with_file(user_message, f, net) ==
    /\ call' = Called("chat_with_file", 0, user_message, f, <<>>, net, catalog,
                      ClientChatWithFile(backend, model, user_message, f, <<>>, net))
    /\ UNCHANGED <<setup, catalog, catalogQueries, stored, ui, inflight>>

(***************************************************************************)
(* Inputs.                                                                 *)
(***************************************************************************)
Catalog(ok, ids) == [ok |-> ok, ids |-> ids]
Setup(b, cfg, cat) == [b |-> b, cfg |-> cfg, cat |-> cat]

\* main(): the client is constructed and put in bot_data; nothing is stored yet
InitWith(setups, allowLists) ==
    /\ \E st \in setups :
         /\ backend = st.b
         /\ configured = st.cfg
         /\ catalog = st.cat
         /\ seen = st.cat
         /\ model \in ConstructModel(st.b, st.cfg, st.cat)
         /\ catalogQueries = ConstructQueries(st.b, st.cfg)
    /\ allowed \in allowLists
    /\ stored = [u \in Users |-> <<>>]
    /\ call = NoCall
    /\ ui = NoUi
    /\ inflight = {}

\* the statuses a round trip can end with (0: no response); the SDKs raise on
\* every status that is not a success
Statuses(b) ==
    IF b \in {"rovo", "openrouter"} THEN {0, 200, 201, 401, 403, 500}
    ELSE {0, 200, 401, 500}

\* the body of a successful answer of backend b
OkBody(b) ==
    CASE b = "gemini" -> JDict([text |-> JStr(S("  Hi there  "))])
      [] b = "rovo" -> JDict([message |-> JDict([content |-> JStr(S("Hi there"))])])
      [] OTHER -> ChatCompletion(JStr(S("Hi there")))

\* the body that comes with a status that is not a success
ErrorBody == JDict([error |-> JStr(S("denied"))])

Nets(b) ==
    {Net(st, IF st \in {200, 201} THEN OkBody(b) ELSE IF st = 0 THEN JNull ELSE ErrorBody) :
        st \in Statuses(b)}

\* a round trip that is never made
NoNet == Net(0, JNull)

Upload(kind, file_name, mime_type, len, chars) ==
    [kind |-> kind, file_name |-> file_name, mime_type |-> mime_type,
     len |-> len, chars |-> chars]
FileRequest(up, caption) == [up |-> up, caption |-> caption]

Texts == {"Hello", "   "}
FileRequests ==
    {FileRequest(Upload("document", "notes.txt", "text/plain", 40000, 40000), ""),
     FileRequest(Upload("photo", "", "", 1200, 1100), "What is this?"),
     FileRequest(Upload("document", "doc.pdf", "application/pdf", 5000, 4800), ""),
     FileRequest(Upload("document", "big.bin", "", 375001, 300000), "")}

MainSetups ==
    {Setup("gemini", "gemini-1.5-flash", Catalog(FALSE, {})),
     Setup("groq", "auto",
           Catalog(TRUE, {"llama-3.3-70b-versatile", "llama-3.2-11b-vision-preview"})),
     Setup("groq", "llama-3.2-11b-vision-preview", Catalog(FALSE, {})),
     Setup("xai", "auto", Catalog(TRUE, {"grok-2-vision-1212", "grok-2-1212"})),
     Setup("xai", "grok-2-1212", Catalog(FALSE, {})),
     Setup("openrouter", "auto", Catalog(FALSE, {})),
     Setup("rovo", "", Catalog(FALSE, {}))}

(***************************************************************************)
(* Spec: one user's conversation with each of the five clients.            *)
(***************************************************************************)
Init == InitWith(MainSetups, {{}, {2}})

Next ==
    \/ reset_command(1)
    \/ \E text \in Texts, net \in Nets(backend) : handle_text_message(1, text, net)
    \/ \E fr \in FileRequests, net \in Nets(backend) :
            handle_file_message(1, fr.up, fr.caption, TRUE, net)
    \/ \E fr \in FileRequests : handle_file_message(1, fr.up, fr.caption, FALSE, NoNet)

Spec == Init /\ [][Next]_vars

(***************************************************************************)
(* SpecSel: the constructors under every configured model and catalog of   *)
(* the model, followed by calls while the provider's catalog changes.      *)
(***************************************************************************)
SelConfigured == {"auto", "AUTO", "", "my-model"}

SelCatalogs(b) ==
    CASE b = "groq" ->
            {Catalog(FALSE, {}), Catalog(TRUE, {}),
             Catalog(TRUE, {"llama-3.1-70b-versatile", "whisper-large-v3"}),
             Catalog(TRUE, {"llama-3.3-70b-versatile", "llama-3.1-70b-versatile"}),
             Catalog(TRUE, {"whisper-large-v3", "allam-2-7b"})}
      [] b = "xai" ->
            {Catalog(FALSE, {}), Catalog(TRUE, {}),
             Catalog(TRUE, {"grok-2-mini-1212", "grok-3"}),
             Catalog(TRUE, {"grok-2-vision-1212", "grok-2-1212"}),
             Catalog(TRUE, {"grok-beta", "grok-3"})}
      [] OTHER -> {Catalog(FALSE, {})}

SelSetups ==
    UNION {{Setup(b, cfg, cat) : cfg \in SelConfigured, cat \in SelCatalogs(b)} :
           b \in Backends \ {"rovo"}}

SelNets(b) == {n \in Nets(b) : n.status \in {200, 500}}

InitSel == InitWith(SelSetups, {{}})

NextSel ==
    \/ \E cat \in SelCatalogs(backend) : CatalogChange(cat)
    \/ \E net \in SelNets(backend) : handle_text_message(1, "Hello", net)
    \/ \E net \in SelNets(backend) :
            handle_file_message(1, Upload("photo", "", "", 1200, 1100), "", TRUE, net)

SpecSel == InitSel /\ [][NextSel]_vars

(***************************************************************************)
(* SpecBuild: the payload builders, reached through chat_with_file, on     *)
(* files of every kind the builders tell apart and on both sides of their  *)
(* size limits.                                                            *)
(***************************************************************************)
BuildFiles ==
    {File("notes.txt", "text/plain", 900, 900),
     File("notes.txt", "text/plain", 12001, 12001),
     File("notes.txt", "text/plain", 30000, 30000),
     File("notes.txt", "text/plain", 40100, 40000),
     File("notes.txt", PyNone, 900, 900),
     File("photo.jpg", "image/jpeg", 1200, 1100),
     File("photo.jpg", "", 1200, 1100),
     File("shot.py", "image/png", 800, 700),
     File("doc.pdf", "application/pdf", 5000, 4800),
     File("blob.bin", "application/octet-stream", 600, 500),
     File("edge.bin", "application/octet-stream", 375000, 300000),
     File("big.bin", "application/octet-stream", 375001, 300000),
     File("big.bin", PyNone, 600, 500)}

BuildMessages == {"", "What is this?"}

BuildSetups ==
    {Setup("gemini", "gemini-1.5-flash", Catalog(FALSE, {})),
     Setup("groq", "llama-3.3-70b-versatile", Catalog(FALSE, {})),
     Setup("groq", "llama-3.2-11b-vision-preview", Catalog(FALSE, {})),
     Setup("xai", "grok-2-vision-1212", Catalog(FALSE, {})),
     Setup("xai", "grok-2-1212", Catalog(FALSE, {})),
     Setup("openrouter", "auto", Catalog(FALSE, {})),
     Setup("rovo", "", Catalog(FALSE, {}))}

InitBuild == InitWith(BuildSetups, {{}})

NextBuild ==
    \E msg \in BuildMessages, f \in BuildFiles :
        client_chat_with_file(S(msg), f, Net(200, OkBody(backend)))

SpecBuild == InitBuild /\ [][NextBuild]_vars

(***************************************************************************)
(* SpecParse: the bot's text handler with responses of status 200 whose    *)
(* bodies have every shape the clients tell apart, and shapes they do not  *)
(* expect.                                                                 *)
(***************************************************************************)
T(s) == JStr(S(s))
MessageOf(content) == JDict([message |-> JDict([content |-> content])])
TextBlock(s) == JDict([type |-> T("text"), text |-> T(s)])

\* bodies of an HTTP response (RovoDevClient, OpenRouterClient), as a sequence
JsonBodies ==
    <<MessageOf(T("Hi there")),
     MessageOf(JNull),
     MessageOf(T("")),
     JDict([message |-> JDict([content |-> T("A")]),
            choices |-> JList(<<MessageOf(T("B"))>>),
            content |-> T("C"), response |-> T("D"), text |-> T("E")]),
     JDict([choices |-> JList(<<MessageOf(T("B"))>>), content |-> T("C")]),
     JDict([choices |-> JList(<<JDict([text |-> T("B")])>>), response |-> T("D")]),
     JDict([choices |-> JList(<<JDict([index |-> JNum(0)])>>), content |-> T("C")]),
     JDict([choices |-> JList(<<>>), content |-> T("C")]),
     JDict([choices |-> JList(<<JDict([message |-> T("B")])>>)]),
     JDict([choices |-> JList(<<JDict([message |-> JDict([role |-> T("assistant")])])>>),
            content |-> T("C")]),
     JDict([choices |-> JDict([first |-> MessageOf(T("B"))])]),
     JDict([message |-> JDict([role |-> T("assistant")]), content |-> T("C")]),
     JDict([message |-> T("A"), content |-> T("C")]),
     JDict([content |-> T("C"), response |-> T("D"), text |-> T("E")]),
     JDict([content |-> T("")]),
     JDict([content |-> JList(<<TextBlock("X"),
                                JDict([type |-> T("paragraph"),
                                       content |-> JList(<<TextBlock("Y")>>)]),
                                TextBlock("Z")>>),
            text |-> T("E")]),
     JDict([content |-> JList(<<JDict([type |-> T("text"), text |-> JNull])>>)]),
     JDict([content |-> JDict([parts |-> T("C")]), text |-> T("E")]),
     JDict([response |-> T("D"), text |-> T("E")]),
     JDict([response |-> JNull]),
     JDict([text |-> T("E")]),
     JDict([error |-> T("denied")]),
     JEmptyDict,
     JList(<<>>),
     JNull,
     NonJson(S(" Hello ")),
     NonJson(S(""))>>

\* what the SDK gives after a successful request (Groq, xAI, Gemini)
SdkBodies(b) ==
    IF b = "gemini"
    THEN <<JDict([text |-> T("  Hi there  ")]), JDict([text |-> T("   ")]),
           JDict([text |-> JNull])>>
    ELSE <<ChatCompletion(T("Hi there")), ChatCompletion(T("   ")), ChatCompletion(JNull)>>

ParseBodies(b) == IF b \in {"rovo", "openrouter"} THEN JsonBodies ELSE SdkBodies(b)

InitParse == InitWith(MainSetups, {{}})

NextParse ==
    \/ reset_command(1)
    \/ \E i \in 1..Len(ParseBodies(backend)) :
            handle_text_message(1, "Hello", Net(200, ParseBodies(backend)[i]))

SpecParse == InitParse /\ [][NextParse]_vars

(***************************************************************************)
(* SpecConc: the text handler as two steps, before and after its await of  *)
(* client.chat, so that calls of one user can be in flight together (the   *)
(* client and the handler hold no lock; whether the Application lets two   *)
(* updates be handled at once is its concurrent_updates setting).          *)
(***************************************************************************)
\* handlers that can be waiting for client.chat at the same time
MaxInflight == 2

\* a handler waiting at line 149: its task, the user, the text, the list it
\* read from user_data on line 145, and whether another call of the same
\* user was in flight at some moment since it started
Awaiting(task, u, msg, before, overlapped) ==
    [task |-> task, user |-> u, msg |-> msg, before |-> before, overlapped |-> overlapped]

FreeTasks == (1..MaxInflight) \ {c.task : c \in inflight}

\* the result appended to whatever is stored when the call returns
StoreOnReturn_merge(current, result) ==
    current \o SubSeq(result, Len(result) - 1, Len(result))

\* context.user_data["history"] = history (line 150): the returned list
\* replaces the stored one
StoreOnReturn(current, result) == result

\* handle_text_message, lines 132-149: up to the await of client.chat
handle_text_message_awaits(u, text) ==
    /\ Len(stored[u]) + 2 <= MaxHist
    /\ FreeTasks # {}
    /\ IF ~is_authorized(u)
       THEN /\ ui' = Ui(u, "unauthorized", NoneContent)
            /\ UNCHANGED inflight
       ELSE IF Strip(S(text)) = <<>>
       THEN UNCHANGED <<ui, inflight>>
       ELSE LET task == CHOOSE t \in FreeTasks : \A o \in FreeTasks : t <= o
                busy == \E c \in inflight : c.user = u
            IN /\ inflight' =
                    {IF c.user = u THEN [c EXCEPT !.overlapped = TRUE] ELSE c : c \in inflight}
                    \cup {Awaiting(task, u, Strip(S(text)), stored[u], busy)}
               /\ UNCHANGED ui
    /\ UNCHANGED <<setup, catalog, catalogQueries, stored, call>>

\* handle_text_message, lines 149-157: client.chat returns or raises; the
\* observation also holds the list that was stored when it did
handle_text_message_returns(c, net) ==
    /\ c \in inflight
    /\ LET cm == CallModel(model, catalogQueries, backend, configured, catalog)
           res == ClientChat(backend, cm.model, c.msg, c.before, net)
       IN /\ call' = Called("chat", c.user, c.msg, NoFile, c.before, net, catalog, res)
                        @@ [replaced |-> stored[c.user], overlapped |-> c.overlapped]
          /\ catalogQueries' = cm.queries
          /\ stored' = IF res.ok
                       THEN [stored EXCEPT
                               ![c.user] = StoreOnReturn(stored[c.user], res.history)]
                       ELSE stored
          /\ ui' = IF res.ok THEN AfterReply(c.user, res.reply)
                   ELSE Ui(c.user, "error", NoneContent)
    /\ inflight' = inflight \ {c}
    /\ UNCHANGED <<setup, catalog>>

ConcTexts == {"Hello", "Thanks"}

\* the round trips of these calls: an answer, or a server error
ConcNets(b) == {Net(200, OkBody(b)), Net(500, ErrorBody)}

InitConc == InitWith(MainSetups, {{}})

NextConc ==
    \/ \E text \in ConcTexts : handle_text_message_awaits(1, text)
    \/ \E c \in inflight, net \in ConcNets(backend) : handle_text_message_returns(c, net)

SpecConc == InitConc /\ [][NextConc]_vars

(***************************************************************************)
(* SpecBot: the updates of two users, one of them outside the allow-list   *)
(* when there is one, through every handler main() registers.              *)
(***************************************************************************)
NextBot ==
    \E u \in Users :
        \/ start_command(u)
        \/ help_command(u)
        \/ reset_command(u)
        \/ \E text \in Texts, net \in ConcNets(backend) : handle_text_message(u, text, net)
        \/ \E net \in ConcNets(backend) :
                handle_file_message(u, Upload("photo", "", "", 1200, 1100), "What is this?",
                                    TRUE, net)
        \/ handle_file_message(u, Upload("photo", "", "", 1200, 1100), "What is this?",
                               FALSE, NoNet)

SpecBot == Init /\ [][NextBot]_vars

(***************************************************************************)
(* SpecSplit: split_long_message on every short text with every small      *)
(* max_length, and send_long_message on texts around Telegram's limit.  A  *)
(* text is the sequence of its characters.                                 *)
(***************************************************************************)
\* the longest text split_long_message is given with a max_length of its own
MaxLen == 5

\* max_length's default
Telegram_max_length == 4096

\* lines 60-63: while text: chunks.append(text[:max_length]); text = text[max_length:]
RECURSIVE split_loop(_, _)
split_loop(text, max_length) ==
    IF text = <<>> THEN <<>>
    ELSE IF Len(text) <= max_length THEN <<text>>
    ELSE <<SubSeq(text, 1, max_length)>>
         \o split_loop(SubSeq(text, max_length + 1, Len(text)), max_length)

\* split_long_message
split_long_message(text, max_length) ==
    IF Len(text) <= max_length THEN <<text>> ELSE split_loop(text, max_length)

\* a call of split_long_message and the list it returns
call_split_long_message(text, max_length) ==
    /\ ui' = Ui(0, "split", [text |-> text, max_length |-> max_length,
                             chunks |-> split_long_message(text, max_length)])
    /\ UNCHANGED <<setup, catalog, catalogQueries, stored, call, inflight>>

\* send_long_message: one reply_text per chunk, in the order of the list
send_long_message(u, text) ==
    /\ ui' = LET chunks == split_long_message(text, Telegram_max_length)
             IN Ui(u, "replies", [text |-> text, max_length |-> Telegram_max_length,
                                  chunks |-> [i \in 1..Len(chunks) |-> chunks[i]]])
    /\ UNCHANGED <<setup, catalog, catalogQueries, stored, call, inflight>>

NextSplit ==
    \/ \E n \in 0..MaxLen, max_length \in 1..(MaxLen + 1) :
          \E text \in [1..n -> {"a", "b"}] : call_split_long_message(text, max_length)
    \/ \E n \in {0, 1, Telegram_max_length, Telegram_max_length + 1,
                 2 * Telegram_max_length, 2 * Telegram_max_length + 1} :
          send_long_message(1, [i \in 1..n |-> IF i % 2 = 1 THEN "a" ELSE "b"])

SpecSplit == InitParse /\ [][NextSplit]_vars

(***************************************************************************)
(* Properties.                                                             *)
(***************************************************************************)
IsPrefix(a, b) == Len(a) <= Len(b) /\ SubSeq(b, 1, Len(a)) = a

\* a turn whose content is a plain text string without file data
PlainTextTurn(turn) == turn.content.type = "str" /\ ~CarriesFileData(turn.content)

\* C1: chat and chat_with_file leave the list passed in as it was, and on
\* success the returned history is two turns longer than the input.
C1_InputUntouchedLenPlus2 ==
    call.op # "none" =>
        /\ call.res.passed = call.before
        /\ call.res.ok => Len(call.res.history) = Len(call.before) + 2

C1_Witness ==
    /\ call.op = "chat_with_file"
    /\ call.res.ok
    /\ Len(call.before) = 2
    /\ Len(call.res.history) = 4

\* C2: after a successful call every turn of the returned history has a plain
\* text string as content: no raw bytes, no base64 file data, no native block.
C2_ReturnedHistoryIsText ==
    (call.op # "none" /\ call.res.ok) =>
        \A i \in 1..Len(call.res.history) : PlainTextTurn(call.res.history[i])

\* C3: the returned history is the input history, unchanged, then one user
\* turn, then one assistant turn holding the returned reply ("Hello" on an
\* empty history gives [{user, "Hello"}, {assistant, reply}]); and a stored
\* turn is never edited: a user's history only grows at its end or is cleared.
C3_Returned ==
    (call.op # "none" /\ call.res.ok) =>
        LET n == Len(call.before) IN
        /\ Len(call.res.history) = n + 2
        /\ SubSeq(call.res.history, 1, n) = call.before
        /\ call.res.history[n + 1].role = "user"
        /\ call.res.history[n + 2] = Turn("assistant", call.res.reply)
        /\ call.op = "chat" => call.res.history[n + 1] = Turn("user", StrContent(call.msg))
        /\ (call.op = "chat" /\ n = 0 /\ call.msg = S("Hello")) =>
              call.res.history = <<Turn("user", StrContent(S("Hello"))),
                                   Turn("assistant", call.res.reply)>>

C3_AppendOnly ==
    [](C3_Returned)
    /\ [][\A u \in Users : stored'[u] = <<>> \/ IsPrefix(stored[u], stored'[u])]_vars

C3_Witness ==
    /\ call.op = "chat_with_file"
    /\ backend = "groq"
    /\ call.res.ok
    /\ Len(call.before) = 2
    /\ stored[1] = call.res.history

\* a round trip that did not end in a success status
FailedStatus(b, status) ==
    IF b = "rovo" THEN status \notin {200, 201} ELSE status # 200

\* C4: when the round trip fails (401, another non-success status, no
\* response) the call raises, the list passed in is unchanged and the bot's
\* stored history keeps the turns it had.
C4_FailureKeepsHistory ==
    [][(call' # call /\ FailedStatus(backend, call'.status)) =>
          /\ ~call'.res.ok
          /\ call'.res.err # NoErr
          /\ call'.res.passed = call'.before
          /\ stored' = stored
          /\ ui'.kind = "error"]_vars

C4_Witness ==
    /\ call.op = "chat"
    /\ call.status = 401
    /\ ~call.res.ok
    /\ Len(call.before) = 2
    /\ stored[1] = call.before

\* the exception class a backend raises for a non-success status that is
\* neither 401 nor 403
GeneralKind(b, m) == ClientChat(b, m, S("Hello"), <<>>, Net(500, JNull)).err.cls

\* C5: a response with status 401 or 403 raises an authentication error kind
\* distinct from the kind raised for other non-success statuses.  (Decided on
\* the two clients that read the status themselves; for the other three the
\* exception is the SDK's.)
C5_AuthKindDistinct ==
    (call.op # "none" /\ backend \in {"rovo", "openrouter"} /\ call.status \in {401, 403}) =>
        /\ ~call.res.ok
        /\ call.res.err.cls # GeneralKind(backend, model)

\* C6: every call makes exactly one round trip, whether it succeeds or fails.
C6_OneRoundTrip == call.op # "none" => Len(call.res.requests) = 1

C6_Witness ==
    /\ call.op = "chat_with_file"
    /\ ~call.res.ok
    /\ call.status = 500
    /\ Len(call.res.requests) = 1

\* the texts by which the clients state a limitation
LimitationLits ==
    {"' is too large to send (",
     "> is too large to send in full (",
     "' does not support vision. Switch to grok-2-vision-1212.]",
     ") is not supported. Please share as text or image.]",
     "... (truncated for non-vision model)\nPlease note: this model doesn't support images natively. Describe what you'd like to know about this image."}

StatesLimitation(content) ==
    \E i \in 1..Len(TokensOf(content.blocks)) :
        LET t == TokensOf(content.blocks)[i] IN t.k = "lit" /\ t.s \in LimitationLits

\* the attachments a client finds too large to encode or of a modality the
\* backend does not take: a binary above the base64 ceiling (Gemini, Rovo), an
\* image with a model without vision (xAI, Groq), a file that is neither text
\* nor image (xAI)
Limited(b, m, f) ==
    CASE b = "gemini" ->
            /\ ~(Gemini_is_text_mime(f.mime) \/ RsplitExt(f.name) \in Gemini_text_exts)
            /\ f.mime \notin Gemini_IMAGE_MIME_TYPES \cup Gemini_DOCUMENT_MIME_TYPES
            /\ B64Len(f.len) > 500000
      [] b = "rovo" ->
            /\ ~(Rovo_is_text_mime(f.mime) \/ RsplitExt(f.name) \in Rovo_text_exts)
            /\ 5 + MimeLen(f.mime) + 8 + B64Len(f.len) > 500000
      [] b = "xai" ->
            IF StartsWith(f.mime, "image/") THEN m \notin XAI_VISION_MODELS
            ELSE ~(StartsWith(f.mime, "text/") \/ EndsWithOneOf(f.name, XAI_text_exts))
      [] b = "groq" ->
            /\ f.mime \in Groq_IMAGE_MIME_TYPES
            /\ m \notin Groq_VISION_MODELS
            /\ ~(PathSuffix(f.name) \in Groq_text_extensions \/ StartsWith(f.mime, "text/"))
      [] OTHER -> FALSE

\* the reply a plain chat gets from the response that status stands for
ReplyTo(b, m, status) ==
    ClientChat(b, m, S("Hello"), <<>>, Net(status, OkBody(b))).reply

LastMessage(req) == req.messages[Len(req.messages)]

C8_ResolvedOnce ==
    /\ model \in ConstructModel(backend, configured, seen)
    /\ catalogQueries = ConstructQueries(backend, configured)
    /\ call.op # "none" =>
          \A i \in 1..Len(call.res.requests) : call.res.requests[i].model = model

C8_Witness ==
    /\ call.op = "chat"
    /\ catalogQueries = 1
    /\ call.cat.ok
    /\ call.cat # seen
    /\ model \notin ConstructModel(backend, configured, call.cat)
    /\ call.res.requests[1].model = model

\* the priority list and the default id of the clients that query a catalog
PriorityList(b) == IF b = "groq" THEN Groq_PREFERRED_MODELS ELSE XAI_PREFERRED_MODELS
DefaultId(b) == IF b = "groq" THEN "llama-3.3-70b-versatile" ELSE "grok-2-1212"
MatchesAt(b, ids) == {i \in 1..Len(PriorityList(b)) : PriorityList(b)[i] \in ids}
FirstInPriority(b, ids) ==
    PriorityList(b)[CHOOSE i \in MatchesAt(b, ids) : \A j \in MatchesAt(b, ids) : i <= j]
LexSmallest(ids) == CHOOSE a \in ids : \A b \in ids : LexRank(a) <= LexRank(b)

\* C9 as stated: with "auto" the first entry of the priority list that is
\* available is selected, the default id when the query fails; any other
\* configured model is used as given.
C9_OnlyAutoSelects ==
    backend \in {"groq", "xai"} =>
        /\ (configured = "auto" /\ seen.ok /\ MatchesAt(backend, seen.ids) # {}) =>
              model = FirstInPriority(backend, seen.ids)
        /\ (configured = "auto" /\ ~seen.ok) => model = DefaultId(backend)
        /\ configured # "auto" => model = configured

\* what the constructor takes for "auto": the Groq client also an empty
\* configured model and "auto" in any letter case
TreatedAsAuto(b, cfg) ==
    \/ cfg = "auto"
    \/ b = "groq" /\ cfg \in {"", "AUTO"}

\* C9 amended: as stated, where the Groq client also takes an empty configured
\* model, or "auto" in another letter case, for "auto".
C9_AutoSelection ==
    backend \in {"groq", "xai"} =>
        /\ (TreatedAsAuto(backend, configured) /\ seen.ok
                /\ MatchesAt(backend, seen.ids) # {}) =>
              model = FirstInPriority(backend, seen.ids)
        /\ (TreatedAsAuto(backend, configured) /\ ~seen.ok) => model = DefaultId(backend)
        /\ ~TreatedAsAuto(backend, configured) => model = configured

C9_Witness ==
    /\ backend = "groq"
    /\ configured = "AUTO"
    /\ seen = Catalog(TRUE, {"llama-3.1-70b-versatile", "whisper-large-v3"})
    /\ model = "llama-3.1-70b-versatile"
    /\ call.op = "chat"

\* C10: with "auto" and a catalog that is not empty and holds no entry of the
\* priority list, the lexicographically smallest available id is selected.
C10_LexSmallestFallback ==
    (/\ backend \in {"groq", "xai"}
     /\ configured = "auto"
     /\ seen.ok
     /\ seen.ids # {}
     /\ MatchesAt(backend, seen.ids) = {}) =>
        model = LexSmallest(seen.ids)

\* the content of the user message a call sent: the payload built for it
Sent(res) == LastMessage(res.requests[1]).content

\* a direct call that built and sent a payload
Built == call.op = "chat_with_file" /\ call.res.requests # <<>>

SentTokens == TokensOf(Sent(call.res).blocks)

\* the payload holds a token of kind k of n characters or bytes
SentHas(k, n) == \E i \in 1..Len(SentTokens) : SentTokens[i].k = k /\ SentTokens[i].n = n

\* the payload holds one of the literal texts lits
SentSays(lits) ==
    \E i \in 1..Len(SentTokens) : SentTokens[i].k = "lit" /\ SentTokens[i].s \in lits

\* the payload holds a block of one of the types bts
SentBlock(bts) == \E i \in 1..Len(Sent(call.res).blocks) : Sent(call.res).blocks[i].bt \in bts

\* the payload holds bytes or text of the file, in any encoding
SentFileData ==
    \E i \in 1..Len(SentTokens) :
        SentTokens[i].k \in {"raw", "b64", "decoded", "filetext"} /\ SentTokens[i].n > 0

\* the character ceiling of the backends that shorten a text attachment
TextCeiling(b) ==
    CASE b \in {"gemini", "rovo"} -> 30000
      [] b \in {"xai", "openrouter"} -> 12000
      [] OTHER -> 0

TextAttachment(f) == f.mime \in {"text/plain", "text/x-python", "text/csv"}

TruncationMarkers ==
    {"\n\n[... truncated - exceeded ", "\n\n[... truncated - file exceeded ",
     "\n\n[... file truncated, "}

\* a text attachment longer than the ceiling of the backend was sent
LongText ==
    /\ Built
    /\ TextCeiling(backend) > 0
    /\ TextAttachment(call.file)
    /\ call.file.chars > TextCeiling(backend)

\* C11: a text attachment longer than the backend's character ceiling gives a
\* payload with a truncation marker and with exactly the first `ceiling`
\* characters of the text.
C11_TruncationMarked ==
    LongText =>
        /\ SentSays(TruncationMarkers)
        /\ SentHas("filetext", TextCeiling(backend))

\* C12: the truncation marker states the original length of the text (40,000
\* for a 40,000-character file under a 30,000-character ceiling).
C12_MarkerStatesOriginalLength ==
    LongText => SentHas("num", call.file.chars)

OpaqueBinary(f) == f.mime = "application/octet-stream" /\ RsplitExt(f.name) = "bin"

SizeRefusals == {"' is too large to send (", "> is too large to send in full ("}

\* C13: an opaque binary whose base64 text is longer than 500,000 characters
\* gives the size refusal, which names the byte count and holds nothing of the
\* file; one at or below the ceiling is not refused.
C13_SizeRefusal ==
    (Built /\ backend \in {"gemini", "rovo", "groq"} /\ OpaqueBinary(call.file)) =>
        IF B64Len(call.file.len) > 500000
        THEN /\ SentSays(SizeRefusals)
             /\ SentHas("num", call.file.len)
             /\ ~SentFileData
        ELSE ~SentSays(SizeRefusals)

\* the models the client lists as taking images
VisionCapable(b, m) ==
    CASE b = "groq" -> m \in Groq_VISION_MODELS
      [] b = "xai" -> m \in XAI_VISION_MODELS
      [] OTHER -> FALSE

NoVisionNotices ==
    {"' does not support vision. Switch to grok-2-vision-1212.]",
     "... (truncated for non-vision model)\nPlease note: this model doesn't support images natively. Describe what you'd like to know about this image."}

\* C14: an image gives a native image block only when the resolved model is
\* vision-capable; otherwise the payload is text saying that the model does
\* not take images, with no encoded bytes of the image.
C14_ImageOnlyWithVision ==
    (/\ Built
     /\ backend \in {"groq", "xai"}
     /\ call.file.name = "photo.jpg"
     /\ call.file.mime = "image/jpeg") =>
        /\ SentBlock({"image_url", "inline_data"}) => VisionCapable(backend, model)
        /\ ~VisionCapable(backend, model) =>
              /\ Sent(call.res).type = "str"
              /\ SentSays(NoVisionNotices)
              /\ ~SentFileData

\* C15: a document (application/pdf) gives a native document block on the
\* backend that takes documents (Gemini) and, on every other backend, only a
\* limitation notice with none of the file's bytes.
C15_DocumentNativeOrNotice ==
    (Built /\ call.file.mime = "application/pdf") =>
        IF backend = "gemini"
        THEN /\ SentBlock({"inline_data"})
             /\ SentHas("raw", call.file.len)
        ELSE /\ Sent(call.res).type = "str"
             /\ SentSays(LimitationLits)
             /\ ~SentFileData

\* the file counts as text by the client's own rule: a textual mime type or an
\* extension of the client's code/markup set
TextByRule(b, f) ==
    CASE b = "gemini" -> Gemini_is_text_mime(f.mime) \/ RsplitExt(f.name) \in Gemini_text_exts
      [] b = "rovo" -> Rovo_is_text_mime(f.mime) \/ RsplitExt(f.name) \in Rovo_text_exts
      [] b = "groq" -> f.mime \in {"text/plain"} \/ PathSuffix(f.name) \in Groq_text_extensions
      [] b = "xai" -> f.mime \in {"text/plain"} \/ EndsWithOneOf(f.name, XAI_text_exts)
      [] OTHER -> FALSE

\* C18: a textual mime type or a code/markup extension gives Text before the
\* mime type is tested for Image, Document or OpaqueBinary, on every backend:
\* a file named like code is sent as text also when its mime type is an image
\* type and the model is vision-capable.
C18_TextRuleFirst ==
    (Built /\ TextByRule(backend, call.file)) =>
        /\ SentHas("filetext", Min(call.file.chars,
                                   IF TextCeiling(backend) > 0 THEN TextCeiling(backend)
                                   ELSE call.file.chars))
        /\ ~SentBlock({"image_url", "inline_data"})

\* what a payload is, by its blocks and tokens
Modality(content) ==
    LET toks == TokensOf(content.blocks)
    IN IF \E i \in 1..Len(content.blocks) : content.blocks[i].bt \in {"image_url", "inline_data"}
       THEN "native"
       ELSE IF \E i \in 1..Len(toks) : toks[i].k = "filetext" THEN "text"
       ELSE "other"

\* the same call on a file of the same name and mime type with other bytes
OtherBytes(f) == [f EXCEPT !.len = 7, !.chars = 3]

\* C19: building the payload never raises, whatever the file name, the mime
\* type (empty and missing included) and the bytes, and the modality does not
\* depend on the bytes.
C19_BuilderNeverRaises ==
    call.op = "chat_with_file" =>
        /\ call.res.requests # <<>>
        /\ LET other == ClientChatWithFile(backend, model, call.msg, OtherBytes(call.file),
                                           <<>>, Net(200, OkBody(backend)))
           IN /\ other.requests # <<>>
              /\ Modality(Sent(other)) = Modality(Sent(call.res))

\* the shapes of a response body, by the fields it has
HasMessageContent(d) == Has(d, "message") /\ Has(d.v.message, "content")
HasChoices(body) == Has(body, "choices") /\ body.v.choices.t = "list" /\ body.v.choices.v # <<>>
ChoiceShape(body) ==
    HasChoices(body)
    /\ (HasMessageContent(body.v.choices.v[1]) \/ Has(body.v.choices.v[1], "text"))
FlatContentShape(body) == Has(body, "content") /\ body.v.content.t \in {"str", "list"}
FlatResponseShape(body) == Has(body, "response") \/ Has(body, "text")

\* the texts of typed blocks, in traversal order
RECURSIVE BlockTexts(_)
BlockTexts(blocks) ==
    IF blocks = <<>> THEN <<>>
    ELSE LET b == Head(blocks)
         IN (IF Has(b, "type") /\ b.v.type = T("text") /\ Has(b, "text") /\ b.v.text.t = "str"
             THEN b.v.text.v ELSE <<>>)
            \o (IF Has(b, "content") /\ b.v.content.t = "list"
                THEN BlockTexts(b.v.content.v) ELSE <<>>)
            \o BlockTexts(Tail(blocks))

\* the reply the earliest matching shape gives (a response or text field that
\* is not a string is given as str() renders it)
ByPrecedence(body) ==
    IF HasMessageContent(body) THEN AsReply(body.v.message.v.content)
    ELSE IF ChoiceShape(body)
    THEN (IF HasMessageContent(body.v.choices.v[1])
          THEN AsReply(body.v.choices.v[1].v.message.v.content)
          ELSE AsReply(body.v.choices.v[1].v.text))
    ELSE IF FlatContentShape(body)
    THEN (IF body.v.content.t = "str" THEN StrContent(body.v.content.v)
          ELSE StrContent(BlockTexts(body.v.content.v)))
    ELSE IF Has(body, "response")
    THEN (IF body.v.response.t = "str" THEN StrContent(body.v.response.v)
          ELSE Repr("response"))
    ELSE IF body.v.text.t = "str" THEN StrContent(body.v.text.v)
    ELSE Repr("text")

\* C16: the normalizer takes the reply from message.content, else from the
\* choices array (message.content or text), else from a flat content field
\* (a string, or typed blocks concatenated in traversal order), else from a
\* flat response or text field; the earliest shape a body matches decides.
C16_ShapePrecedence ==
    (/\ call.op = "chat"
     /\ backend = "rovo"
     /\ call.res.ok
     /\ \/ HasMessageContent(call.body)
        \/ ChoiceShape(call.body)
        \/ FlatContentShape(call.body)
        \/ FlatResponseShape(call.body)) =>
        call.res.reply = ByPrecedence(call.body)

\* C17: normalization never fails: whatever the body of a successful
\* response, the call returns a non-empty text and does not raise.
C17_NormalizationNeverFails ==
    (call.op = "chat" /\ ~FailedStatus(backend, call.status)) =>
        /\ call.res.ok
        /\ call.res.reply.type = "str"
        /\ TokensOf(call.res.reply.blocks) # <<>>


\* a call made by the two-step handler has returned
ConcReturned == call.op = "chat" /\ "replaced" \in DOMAIN call

\* the last two turns of a history
LastExchange(h) == SubSeq(h, Len(h) - 1, Len(h))

\* C20: nothing arbitrates concurrent calls on one conversation.  Every call
\* that returns stores its own result, the history it started from plus its
\* exchange, in place of whatever is stored; so when another call of the same
\* user stored its exchange in between, that exchange is gone and the stored
\* length is the starting length plus two.  A call during which no other call
\* of the user was in flight finds stored what it started from and loses
\* nothing.
C20_LaterStoreOverwrites ==
    (ConcReturned /\ call.res.ok) =>
        /\ stored[call.user] = call.res.history
        /\ stored[call.user] = call.before \o LastExchange(call.res.history)
        /\ Len(stored[call.user]) = Len(call.before) + 2
        /\ ~call.overlapped =>
              /\ call.replaced = call.before
              /\ stored[call.user] = call.replaced \o LastExchange(call.res.history)

\* two calls of one user started from the same history with different texts;
\* the first stored its exchange, then the second returned
C20_Witness ==
    /\ ConcReturned /\ call.res.ok /\ call.overlapped
    /\ Len(call.replaced) = Len(call.before) + 2
    /\ IsPrefix(call.before, call.replaced)
    /\ LastExchange(call.replaced) # LastExchange(stored[call.user])
    /\ Len(stored[call.user]) = Len(call.replaced)
    /\ ~IsPrefix(call.replaced, stored[call.user])


\* the message list of the one round trip of the last call
SentMessages == call.res.requests[1].messages

\* C21: on every backend the message list sent is the system prompt first,
\* then the turns of the input history in order, then the new user turn
\* last; the system prompt is never part of the returned history.
C21_SystemPromptFirst ==
    (call.op # "none" /\ call.res.requests # <<>>) =>
        /\ Len(SentMessages) = Len(call.before) + 2
        /\ SentMessages[1].role = "system"
        /\ SubSeq(SentMessages, 2, Len(call.before) + 1) = call.before
        /\ SentMessages[Len(SentMessages)].role = "user"
        /\ call.res.ok =>
              \A i \in 1..Len(call.res.history) : call.res.history[i].role # "system"


\* C22: with a non-empty allow-list, an update of a user who is not in it
\* (text, file, /start, /help, /reset) makes no backend call and changes no
\* stored history, and the user gets the not-authorized message only; with
\* an empty allow-list nobody is turned away.  (Every step of a handler that
\* changes anything leaves the user it served in ui.)
C22_UnauthorizedNoEffect ==
    [][/\ (allowed # {} /\ ui'.user \notin allowed) =>
              /\ ui'.kind = "unauthorized"
              /\ call' = call
              /\ stored' = stored
              /\ catalogQueries' = catalogQueries
       /\ allowed = {} => ui'.kind # "unauthorized"]_vars

\* a user outside the allow-list was turned away while the allowed user has a
\* conversation stored
C22_Witness ==
    /\ allowed # {}
    /\ ui.kind = "unauthorized" /\ ui.user \notin allowed
    /\ stored[ui.user] = <<>>
    /\ call.op # "none" /\ call.user \in allowed
    /\ \E u \in allowed : stored[u] # <<>>


\* the turns of a message list that are not the system prompt
RECURSIVE Conversation(_)
Conversation(messages) ==
    IF messages = <<>> THEN <<>>
    ELSE (IF Head(messages).role = "system" THEN <<>> ELSE <<Head(messages)>>)
         \o Conversation(Tail(messages))

\* C23: an authorized /reset leaves that user's stored history empty; a
\* successful text or file message of a user whose stored history is empty is
\* sent with no prior turns and leaves a stored history of length 2; and no
\* update of one user (reset, message, failure) changes what is stored for
\* another user.  (A step that ends with a reply or an error in ui made a
\* client call, except a failed download; ui holds the user it served.)
C23_ResetThenFresh ==
    [][/\ \A v \in Users \ {ui'.user} : stored'[v] = stored[v]
       /\ ui'.kind = "reset" => stored'[ui'.user] = <<>>
       /\ (/\ ui'.kind \in {"reply", "error"}
           /\ stored[ui'.user] = <<>>
           /\ call'.user = ui'.user /\ call'.res.ok) =>
              /\ call'.before = <<>>
              /\ Len(Conversation(call'.res.requests[1].messages)) = 1
              /\ stored'[ui'.user] = call'.res.history
              /\ Len(stored'[ui'.user]) = 2]_vars

\* a user who had a successful exchange has just reset, and the other user's
\* conversation is still stored
C23_Witness ==
    /\ ui.kind = "reset"
    /\ call.op # "none" /\ call.user = ui.user /\ call.res.ok
    /\ stored[ui.user] = <<>>
    /\ \E v \in Users \ {ui.user} : Len(stored[v]) >= 2


\* the chunks of a list joined in order
RECURSIVE Joined(_)
Joined(chunks) == IF chunks = <<>> THEN <<>> ELSE Head(chunks) \o Joined(Tail(chunks))

\* split_long_message returned, or send_long_message sent its replies
Chunked == ui.kind \in {"split", "replies"}

\* C24: for every text and max_length >= 1 the chunks split_long_message
\* returns have between 1 and max_length characters each and joined in order
\* they are the text; send_long_message sends them in that order, one reply
\* per chunk.
C24_ChunksCoverText ==
    Chunked =>
        /\ \A i \in 1..Len(ui.content.chunks) :
              /\ Len(ui.content.chunks[i]) >= 1
              /\ Len(ui.content.chunks[i]) <= ui.content.max_length
        /\ Joined(ui.content.chunks) = ui.content.text
        /\ ui.content.chunks = split_long_message(ui.content.text, ui.content.max_length)

====
